---- MODULE Spec2Model ----
(***************************************************************************)
(* Model of the retry wrapper exponentialBackoffFetch (src/App.jsx) and of *)
(* the PCM -> WAV transcoders pcmToWav (src/App.jsx, src/App.js).          *)
(*                                                                         *)
(* Part 1: exponentialBackoffFetch.  Several invocations of the async      *)
(* function run interleaved; an invocation is suspended either on the      *)
(* promise returned by fetch (pc = "fetch") or on the promise resolved by  *)
(* setTimeout (pc = "sleep").  Each action is the code that runs between   *)
(* two suspension points.                                                  *)
(***************************************************************************)
EXTENDS Integers, Sequences, FiniteSets, TLC

\* ---------------------------------------------------------------- bounds
\* largest value of the `retries` argument explored for invocation 1
MaxRetries == 4
\* largest value of the `retries` argument explored for the invocation that
\* runs concurrently with it
MaxRetriesOther == 2

\* longest sample buffer (in bytes) given to pcmToWav
MaxPcmLen == 4

\* longest enumerated argument (in characters) of base64ToArrayBuffer
MaxB64Len == 4

\* longest enumerated text (in characters) given to generateSrt
MaxSrtLen == 5
\* number of sentences of the long texts given to generateSrt
LongSentences == 21

\* ------------------------------------------------------ program constants
\* durationPerSentence
DurationPerSentence == 3000

\* number of generation runs of one component
MaxRuns == 2
\* Audio objects of handlePlayAudio alive at a time
MaxPlays == 1

\* ------------------------------------------------------ program constants
\* default of the `delay` parameter
DefaultDelay == 1000
\* default of the `retries` parameter
DefaultRetries == 5

\* ----------------------------------------------------------- input sets
\* two invocations that may run concurrently
Calls == {1, 2}
RetriesSet == 0..MaxRetries
\* the values of `retries` invocation c may be called with
RetriesOf(c) == IF c = 1 THEN RetriesSet ELSE 0..MaxRetriesOther
DelaySet == {DefaultDelay, 250}
\* HTTP statuses the transport may answer with: success, rate limit, other
StatusSet == {200, 429, 500}

\* byte values the sample buffers are built from (both signs of an int16)
ByteSet == {0, 1, 128, 255}

VARIABLES
    pc,       \* pc[c]: "idle", "fetch" (request in flight), "sleep", "done"
    retries,  \* retries[c]: the `retries` argument of invocation c
    delay,    \* delay[c]: the `delay` argument of invocation c
    i,        \* i[c]: the loop variable i
    sent,     \* sent[c]: number of calls of fetch made so far
    waits,    \* waits[c]: durations passed to setTimeout, in order
    fired,    \* fired[c]: number of timers that have elapsed
    hist,     \* hist[c]: outcomes of the completed requests, in order
    result,   \* result[c]: how the invocation completed
    wavImpl,  \* which pcmToWav was applied: "none", "jsx", "buffer", "int16"
    pcmIn,    \* the decoded sample bytes (contents of the ArrayBuffer)
    rate,     \* the sampleRate argument, as base-256 digits (see below)
    wavOut,   \* the bytes of the Blob that pcmToWav returned
    wavErr,   \* "none", or the exception that ended the conversion
    b64In,    \* the argument of base64ToArrayBuffer, a sequence of characters
    b64Out,   \* the bytes of the ArrayBuffer it returned
    b64State, \* "input", "ok", or "error" (atob threw)
    srtText,  \* the argument of generateSrt, a sequence of code units
    srtOut,   \* the string generateSrt returned, a sequence of code units
    srtState, \* "input" or "done"
    comp,     \* the mounted component: "tts" (App.jsx), "gen", "trans" (App.js)
    mounted,  \* the component has not been torn down
    uInput,   \* what the user entered: "empty", "blank", "text", "github"
    hpc,      \* position of the running handler, "idle" when none runs
    loading,  \* the state loading / isLoading
    uError,   \* the state error: "" or the kind of message shown
    audioUrl, \* the state audioUrl / translatedAudioUrl: 0 or a URL
    srtUrl,   \* the state srtUrl: 0 or a URL
    created,  \* the object URLs made by URL.createObjectURL
    revoked,  \* the object URLs given to URL.revokeObjectURL
    audioSent,   \* audio requests the handler itself sent in this run
    audioStatus, \* status of the audio response whose body was read, or 0
    body,     \* the body of that response
    runs,     \* number of generation runs started
    translated,   \* translatedText of the run: "none", "string", "other"
    pendingPlays, \* calls of audio.play(): no play event, promise unsettled
    startedPlays, \* Audio objects after their play event, promise unsettled
    activePlays,  \* Audio objects playing, promise fulfilled, not ended
    isPlaying     \* the state isPlaying

fetchVars == <<pc, retries, delay, i, sent, waits, fired, hist, result>>
wavVars == <<wavImpl, pcmIn, rate, wavOut, wavErr>>
b64Vars == <<b64In, b64Out, b64State>>
srtVars == <<srtText, srtOut, srtState>>
playVars == <<pendingPlays, startedPlays, activePlays, isPlaying>>
uiVars == <<comp, mounted, uInput, hpc, loading, uError, audioUrl, srtUrl,
            created, revoked, audioSent, audioStatus, body, runs,
            translated, playVars>>
vars == <<fetchVars, wavVars, b64Vars, srtVars, uiVars>>

\* ------------------------------------------------------------ data shapes
\* outcome of one call of fetch: a response with a status, or a rejection
Response(s) == [kind |-> "response", status |-> s]
Rejected == [kind |-> "reject", status |-> 0]
OutcomeSet == {Response(s) : s \in StatusSet} \cup {Rejected}

\* completion of an invocation.  attempt is the loop index at which the
\* returned response was received or the thrown error was created.
NoResult == [kind |-> "none", cause |-> "none", status |-> 0, attempt |-> -1]
Returned(s, k) ==
    [kind |-> "return", cause |-> "response", status |-> s, attempt |-> k]
\* the rejection of fetch at attempt k, rethrown
ThrownTransport(k) ==
    [kind |-> "throw", cause |-> "transport", status |-> 0, attempt |-> k]
\* new Error(`API error: ...`) created from the response of attempt k
ThrownApi(s, k) ==
    [kind |-> "throw", cause |-> "api", status |-> s, attempt |-> k]
\* the loop ran out: the async function resolves with undefined
ReturnedUndefined ==
    [kind |-> "undefined", cause |-> "none", status |-> 0, attempt |-> -1]

\* ------------------------------------------------------- pure helpers
\* mutant: the test of response.ok inverted
OkInverted(s) == ~(s >= 200 /\ s <= 299)

\* response.ok
Ok(s) == s >= 200 /\ s <= 299

\* mutant: linear instead of exponential growth
BackoffDelayLinear(d, k) == d * (k + 1)

\* delay * (2 ** i)
BackoffDelay(d, k) == d * (2 ^ k)

\* mutant: a 429 is retried on the last allowed attempt as well
RateLimitedRetryAlways(s, k, r) == s = 429 /\ k < r

\* mutant: the test for the last attempt dropped from the 429 branch, the
\* retry guarded by the status alone while attempts remain or not
RateLimitedRetryNoGuard(s, k, r) == s = 429

\* response.status === 429 && i < retries - 1
RateLimitedRetry(s, k, r) == s = 429 /\ k < r - 1

\* mutant: off by one in the test for the last attempt
LastAttemptOffByOne(k, r) == k = r

\* i === retries - 1
LastAttempt(k, r) == k = r - 1

\* ------------------------------------------------------------- actions
\* mutant: the body runs once before the condition is tested (do ... while)
LoopHeadAtLeastOnce(c, k, r) ==
    IF k < r \/ k = 0
    THEN /\ pc' = [pc EXCEPT ![c] = "fetch"]
         /\ sent' = [sent EXCEPT ![c] = @ + 1]
         /\ result' = result
    ELSE /\ pc' = [pc EXCEPT ![c] = "done"]
         /\ sent' = sent
         /\ result' = [result EXCEPT ![c] = ReturnedUndefined]

\* mutant: loop condition i <= retries
LoopHeadInclusive(c, k, r) ==
    IF k <= r
    THEN /\ pc' = [pc EXCEPT ![c] = "fetch"]
         /\ sent' = [sent EXCEPT ![c] = @ + 1]
         /\ result' = result
    ELSE /\ pc' = [pc EXCEPT ![c] = "done"]
         /\ sent' = sent
         /\ result' = [result EXCEPT ![c] = ReturnedUndefined]

\* Top of the for loop for invocation c with loop index k: either the
\* condition i < retries holds and fetch is called, or the loop (and the
\* function) ends without a return statement.
LoopHead(c, k, r) ==
    IF k < r
    THEN /\ pc' = [pc EXCEPT ![c] = "fetch"]
         /\ sent' = [sent EXCEPT ![c] = @ + 1]
         /\ result' = result
    ELSE /\ pc' = [pc EXCEPT ![c] = "done"]
         /\ sent' = sent
         /\ result' = [result EXCEPT ![c] = ReturnedUndefined]

\* exponentialBackoffFetch(url, options, r, d) is called
Invoke(c) ==
    /\ pc[c] = "idle"
    /\ \E r \in RetriesOf(c), d \in DelaySet :
        /\ retries' = [retries EXCEPT ![c] = r]
        /\ delay' = [delay EXCEPT ![c] = d]
        /\ i' = [i EXCEPT ![c] = 0]
        /\ LoopHead(c, 0, r)
    /\ UNCHANGED <<waits, fired, hist, wavVars, b64Vars, srtVars, uiVars>>

\* the catch block, entered with error e at loop index i[c]
Catch(c, e) ==
    IF LastAttempt(i[c], retries[c])
    THEN /\ pc' = [pc EXCEPT ![c] = "done"]
         /\ result' = [result EXCEPT ![c] = e]
         /\ waits' = waits
    ELSE /\ pc' = [pc EXCEPT ![c] = "sleep"]
         /\ waits' = [waits EXCEPT
                        ![c] = Append(@, BackoffDelay(delay[c], i[c]))]
         /\ result' = result

\* mutant: the wait after a 429 does not grow with the attempt index
TryBodyFlatWait(c, s) ==
    IF RateLimitedRetry(s, i[c], retries[c])
    THEN /\ pc' = [pc EXCEPT ![c] = "sleep"]
         /\ waits' = [waits EXCEPT ![c] = Append(@, delay[c])]
         /\ result' = result
    ELSE IF ~Ok(s)
         THEN Catch(c, ThrownApi(s, i[c]))
         ELSE /\ pc' = [pc EXCEPT ![c] = "done"]
              /\ result' = [result EXCEPT ![c] = Returned(s, i[c])]
              /\ waits' = waits

\* the body of the try block after `await fetch` resolved with status s
TryBody(c, s) ==
    IF RateLimitedRetry(s, i[c], retries[c])
    THEN /\ pc' = [pc EXCEPT ![c] = "sleep"]
         /\ waits' = [waits EXCEPT
                        ![c] = Append(@, BackoffDelay(delay[c], i[c]))]
         /\ result' = result
    ELSE IF ~Ok(s)
         THEN Catch(c, ThrownApi(s, i[c]))
         ELSE /\ pc' = [pc EXCEPT ![c] = "done"]
              /\ result' = [result EXCEPT ![c] = Returned(s, i[c])]
              /\ waits' = waits

\* the promise of fetch resolves with a response of status s
FetchResolve(c) ==
    /\ pc[c] = "fetch"
    /\ \E s \in StatusSet :
        /\ hist' = [hist EXCEPT ![c] = Append(@, Response(s))]
        /\ TryBody(c, s)
    /\ UNCHANGED <<retries, delay, i, sent, fired, wavVars, b64Vars, srtVars, uiVars>>

\* the promise of fetch rejects (connection error, timeout)
FetchReject(c) ==
    /\ pc[c] = "fetch"
    /\ hist' = [hist EXCEPT ![c] = Append(@, Rejected)]
    /\ Catch(c, ThrownTransport(i[c]))
    /\ UNCHANGED <<retries, delay, i, sent, fired, wavVars, b64Vars, srtVars, uiVars>>

\* mutant: the timer elapses but the promise is never resolved
TimerFireNoResolve(c) ==
    /\ pc[c] = "sleep"
    /\ fired[c] < Len(waits[c])
    /\ fired' = [fired EXCEPT ![c] = @ + 1]
    /\ UNCHANGED <<pc, retries, delay, i, sent, waits, hist, result, wavVars, b64Vars, srtVars, uiVars>>

\* mutant: the loop index is one counter shared by all invocations
TimerFireSharedIndex(c) ==
    /\ pc[c] = "sleep"
    /\ fired' = [fired EXCEPT ![c] = @ + 1]
    /\ i' = [d \in Calls |-> i[d] + 1]
    /\ LoopHead(c, i[c] + 1, retries[c])
    /\ UNCHANGED <<retries, delay, waits, hist, wavVars, b64Vars, srtVars, uiVars>>

\* the timer of the pending backoff wait elapses: the loop continues with
\* i++ (after `continue` as well as after the catch block)
TimerFire(c) ==
    /\ pc[c] = "sleep"
    /\ fired' = [fired EXCEPT ![c] = @ + 1]
    /\ i' = [i EXCEPT ![c] = @ + 1]
    /\ LoopHead(c, i[c] + 1, retries[c])
    /\ UNCHANGED <<retries, delay, waits, hist, wavVars, b64Vars, srtVars, uiVars>>


\* ===================================================================
\* Part 2: pcmToWav
\* ===================================================================
\* Numbers that may exceed 32 bits (the sampleRate argument and its double)
\* are kept as their base-256 digits, least significant first, without
\* leading zero digits: <<128, 62>> is 16000, <<0, 0, 0, 0, 1>> is 2^32.

\* the digits of a natural number
RECURSIVE Digits(_)
Digits(n) == IF n = 0 THEN <<>> ELSE <<n % 256>> \o Digits(n \div 256)

\* x * 2 on digits, with carry cin
RECURSIVE DoubleFrom(_, _)
DoubleFrom(x, cin) ==
    IF x = <<>>
    THEN IF cin = 0 THEN <<>> ELSE <<cin>>
    ELSE LET v == 2 * Head(x) + cin
         IN <<v % 256>> \o DoubleFrom(Tail(x), v \div 256)

\* mutant: byte rate computed as the sample rate itself (the factor lost)
DoubleIdentity(x) == x

\* sampleRate * 2
Double(x) == DoubleFrom(x, 0)

\* mutant: the littleEndian argument left out (DataView default: big-endian)
LowBytesBigEndian(x, w) ==
    [k \in 1..w |-> IF w + 1 - k <= Len(x) THEN x[w + 1 - k] ELSE 0]

\* the w low-order bytes of x, least significant first: what
\* DataView.setUint32 / setUint16 (littleEndian = true) store after the
\* conversion ToUint32 / ToUint16 (x modulo 2^(8w))
LowBytes(x, w) == [k \in 1..w |-> IF k <= Len(x) THEN x[k] ELSE 0]

\* view.setUint32(offset, x, true), x given by its digits
setUint32(x) == LowBytes(x, 4)

\* view.setUint16(offset, n, true)
setUint16(n) == LowBytes(Digits(n), 2)

\* mutant: the littleEndian argument of setInt16 left out (big-endian)
setInt16BigEndian(v) == LET u == v % 65536 IN <<u \div 256, u % 256>>

\* view.setInt16(offset, v, true): ToInt16, two's complement, little-endian
setInt16(v) == LET u == v % 65536 IN <<u % 256, u \div 256>>

\* the character codes string.charCodeAt(i) of the four chunk tags
CharCodes(str) ==
    CASE str = "RIFF" -> <<82, 73, 70, 70>>
      [] str = "WAVE" -> <<87, 65, 86, 69>>
      [] str = "fmt " -> <<102, 109, 116, 32>>
      [] str = "data" -> <<100, 97, 116, 97>>

\* a DataView over new ArrayBuffer(n): n zero bytes
NewBuffer(n) == [k \in 1..n |-> 0]

\* the buffer with bytes written at the 0-based offset off
Put(buf, off, bytes) ==
    [k \in 1..Len(buf) |->
        IF k - 1 >= off /\ k - 1 < off + Len(bytes)
        THEN bytes[k - off]
        ELSE buf[k]]

\* writeString(view, offset, string)
writeString(buf, off, str) == Put(buf, off, CharCodes(str))

\* new Int16Array(arrayBuffer): element k is the signed 16-bit value of the
\* bytes 2k, 2k+1 in the byte order of the host (little-endian hosts)
Int16Array(bytes) ==
    [k \in 1..(Len(bytes) \div 2) |->
        LET u == bytes[2 * k - 1] + 256 * bytes[2 * k]
        IN IF u >= 32768 THEN u - 65536 ELSE u]

\* mutant: the RIFF size written as the whole file length (44 + dataLength)
WavHeaderRiffSize44(buf, dataLength, sampleRate) ==
    LET b1 == writeString(buf, 0, "RIFF")
        b2 == Put(b1, 4, setUint32(Digits(44 + dataLength)))
        b3 == writeString(b2, 8, "WAVE")
        b4 == writeString(b3, 12, "fmt ")
        b5 == Put(b4, 16, setUint32(Digits(16)))
        b6 == Put(b5, 20, setUint16(1))
        b7 == Put(b6, 22, setUint16(1))
        b8 == Put(b7, 24, setUint32(sampleRate))
        b9 == Put(b8, 28, setUint32(Double(sampleRate)))
        b10 == Put(b9, 32, setUint16(2))
        b11 == Put(b10, 34, setUint16(16))
        b12 == writeString(b11, 36, "data")
    IN Put(b12, 40, setUint32(Digits(dataLength)))

\* the 44 header bytes, written field by field at the offsets of the source
\* into buf; dataLength is the value the implementation uses for the length
WavHeader(buf, dataLength, sampleRate) ==
    LET b1 == writeString(buf, 0, "RIFF")
        b2 == Put(b1, 4, setUint32(Digits(36 + dataLength)))
        b3 == writeString(b2, 8, "WAVE")
        b4 == writeString(b3, 12, "fmt ")
        b5 == Put(b4, 16, setUint32(Digits(16)))
        b6 == Put(b5, 20, setUint16(1))
        b7 == Put(b6, 22, setUint16(1))
        b8 == Put(b7, 24, setUint32(sampleRate))
        b9 == Put(b8, 28, setUint32(Double(sampleRate)))
        b10 == Put(b9, 32, setUint16(2))
        b11 == Put(b10, 34, setUint16(16))
        b12 == writeString(b11, 36, "data")
    IN Put(b12, 40, setUint32(Digits(dataLength)))

\* the loop writing the samples: view.setInt16(offset, pcm16[i], true)
RECURSIVE WriteSamples(_, _, _, _)
WriteSamples(buf, off, pcm16, k) ==
    IF k > Len(pcm16)
    THEN buf
    ELSE WriteSamples(Put(buf, off, setInt16(pcm16[k])), off + 2, pcm16, k + 1)

\* the loop copying the bytes: dataView.setUint8(offset + i, pcmData[i])
RECURSIVE WriteBytes(_, _, _, _)
WriteBytes(buf, off, pcmData, k) ==
    IF k > Len(pcmData)
    THEN buf
    ELSE WriteBytes(Put(buf, off + k - 1, <<pcmData[k] % 256>>),
                    off, pcmData, k + 1)

\* App.jsx: pcmToWav(pcmData: Uint8Array, sampleRate)
pcmToWav(pcmData, sampleRate) ==
    LET dataView == NewBuffer(44 + Len(pcmData))
    IN WriteBytes(WavHeader(dataView, Len(pcmData), sampleRate),
                  44, pcmData, 1)

\* App.js, second component: pcmToWav(pcmData: ArrayBuffer, sampleRate);
\* bytes are the contents of the ArrayBuffer, whose length is even (new
\* Int16Array throws otherwise, see EncodeBuffer)
pcmToWav_ArrayBuffer(bytes, sampleRate) ==
    LET dataLength == Len(bytes)
        buffer == NewBuffer(44 + dataLength)
        pcm16 == Int16Array(bytes)
    IN WriteSamples(WavHeader(buffer, dataLength, sampleRate), 44, pcm16, 1)

\* App.js, first component: pcmToWav(pcm16: Int16Array, sampleRate)
pcmToWav_Int16Array(pcm16, sampleRate) ==
    LET dataLength == Len(pcm16) * 2
        buffer == NewBuffer(44 + dataLength)
    IN WriteSamples(WavHeader(buffer, dataLength, sampleRate), 44, pcm16, 1)

\* --------------------------------------------------- inputs and actions
\* all byte sequences of length 0..n over ByteSet
BytesUpTo(n) == UNION {[1..m -> ByteSet] : m \in 0..n}

\* sample rates: the two the callers pass (16000, 24000), small and large
\* 32-bit values, and values of 2^32 and more
RateSet ==
    { Digits(16000), Digits(24000), Digits(1), Digits(255), Digits(65536),
      <<255, 255, 255, 127>>, <<0, 0, 0, 128>>, <<255, 255, 255, 255>>,
      <<0, 0, 0, 0, 1>>, <<128, 62, 0, 0, 1>> }

\* App.jsx:171  pcmToWav(new Uint8Array(pcmData), sampleRate)
EncodeJsx ==
    /\ wavImpl = "none"
    /\ wavImpl' = "jsx"
    /\ wavOut' = pcmToWav(pcmIn, rate)
    /\ UNCHANGED <<pcmIn, rate, wavErr, fetchVars, b64Vars, srtVars, uiVars>>

\* App.js:544  pcmToWav(pcmData, sampleRate): new Int16Array(pcmData) throws
\* a RangeError when the byte length is odd
EncodeBuffer ==
    /\ wavImpl = "none"
    /\ wavImpl' = "buffer"
    /\ IF Len(pcmIn) % 2 = 0
       THEN wavOut' = pcmToWav_ArrayBuffer(pcmIn, rate) /\ wavErr' = wavErr
       ELSE wavOut' = wavOut /\ wavErr' = "RangeError"
    /\ UNCHANGED <<pcmIn, rate, fetchVars, b64Vars, srtVars, uiVars>>

\* App.js:148-151  pcmToWav(new Int16Array(pcmData), sampleRate): the
\* construction of the Int16Array throws a RangeError on an odd byte length
EncodeInt16 ==
    /\ wavImpl = "none"
    /\ wavImpl' = "int16"
    /\ IF Len(pcmIn) % 2 = 0
       THEN /\ wavOut' = pcmToWav_Int16Array(Int16Array(pcmIn), rate)
            /\ wavErr' = wavErr
       ELSE wavOut' = wavOut /\ wavErr' = "RangeError"
    /\ UNCHANGED <<pcmIn, rate, fetchVars, b64Vars, srtVars, uiVars>>


\* ===================================================================
\* Part 3: base64ToArrayBuffer
\* ===================================================================
\* the base64 alphabet in value order
B64Alphabet ==
    <<"A", "B", "C", "D", "E", "F", "G", "H", "I", "J", "K", "L", "M",
      "N", "O", "P", "Q", "R", "S", "T", "U", "V", "W", "X", "Y", "Z",
      "a", "b", "c", "d", "e", "f", "g", "h", "i", "j", "k", "l", "m",
      "n", "o", "p", "q", "r", "s", "t", "u", "v", "w", "x", "y", "z",
      "0", "1", "2", "3", "4", "5", "6", "7", "8", "9", "+", "/">>

IsB64Char(ch) == \E k \in 1..64 : B64Alphabet[k] = ch
\* the 6-bit value of an alphabet character
B64Value(ch) == (CHOOSE k \in 1..64 : B64Alphabet[k] = ch) - 1

\* ASCII white space: tab, line feed, form feed, carriage return, space
AsciiWhiteSpace == {"\t", "\n", "\f", "\r", " "}

\* atob, step 1 of the forgiving-base64 decode: ASCII white space is removed
RemoveWhiteSpace(str) == SelectSeq(str, LAMBDA ch : ch \notin AsciiWhiteSpace)

\* atob, step 2 of the forgiving-base64 decode: when the length is a
\* multiple of 4, one or two trailing "=" are removed
StripPadding(str) ==
    LET n == Len(str) IN
    IF n > 0 /\ n % 4 = 0 /\ str[n] = "="
    THEN IF str[n - 1] = "=" THEN SubSeq(str, 1, n - 2)
                              ELSE SubSeq(str, 1, n - 1)
    ELSE str

\* atob, the decoding loop: every four characters give 24 bits = 3 bytes;
\* two remaining characters give 12 bits of which 8 are kept, three give 18
\* bits of which 16 are kept
RECURSIVE DecodeGroups(_)
DecodeGroups(str) ==
    IF Len(str) >= 4
    THEN LET n == B64Value(str[1]) * 262144 + B64Value(str[2]) * 4096
                  + B64Value(str[3]) * 64 + B64Value(str[4])
         IN <<n \div 65536, (n \div 256) % 256, n % 256>>
            \o DecodeGroups(SubSeq(str, 5, Len(str)))
    ELSE IF Len(str) = 3
    THEN LET n == (B64Value(str[1]) * 4096 + B64Value(str[2]) * 64
                   + B64Value(str[3])) \div 4
         IN <<n \div 256, n % 256>>
    ELSE IF Len(str) = 2
    THEN <<(B64Value(str[1]) * 64 + B64Value(str[2])) \div 16>>
    ELSE <<>>

\* atob(base64): the character codes of the binary string, or the
\* InvalidCharacterError it throws
atob(base64) ==
    LET data == StripPadding(RemoveWhiteSpace(base64)) IN
    IF Len(data) % 4 = 1 \/ \E k \in 1..Len(data) : ~IsB64Char(data[k])
    THEN [ok |-> FALSE, codes |-> <<>>]
    ELSE [ok |-> TRUE, codes |-> DecodeGroups(data)]

\* mutant: the copy loop stops one character early (i < len - 1)
base64ToArrayBufferShortLoop(base64) ==
    LET binaryString == atob(base64)
        len == Len(binaryString.codes)
    IN [ok |-> binaryString.ok,
        bytes |-> [k \in 1..len |->
                     IF k < len THEN binaryString.codes[k] % 256 ELSE 0]]

\* base64ToArrayBuffer(base64): bytes[i] = binaryString.charCodeAt(i) stored
\* in a Uint8Array of binaryString.length elements
base64ToArrayBuffer(base64) ==
    LET binaryString == atob(base64)
        len == Len(binaryString.codes)
    IN [ok |-> binaryString.ok,
        bytes |-> [k \in 1..len |-> binaryString.codes[k] % 256]]

\* characters the enumerated arguments are built from: five alphabet
\* characters, the padding character, a white space and one character outside
\* the alphabet
B64Chars == {"A", "S", "b", "8", "/", "=", " ", "!"}

B64Inputs ==
    UNION {[1..m -> B64Chars] : m \in 0..MaxB64Len}
    \cup { <<"S", "G", "V", "s", "b", "G", "8", "=">>,
           <<"S", "G", "V", "s", " ", "b", "G", "8", "=">>,
           <<"A", "A", "\n", "A", "\t", "\f", "\r">>,
           <<"S", "G", "V", "s", "b", "G", "8">>,
           <<"S", "G", "V", "s", "b", "G", "9", "=">>,
           <<"/", "/", "/", "/", "A", "A", "A", "A">>,
           <<"A", "A", "=", "=", "A", "A", "A", "A">>,
           <<"8", "b", "S", "/", "/", "w", "=", "=">> }

\* const pcmData = base64ToArrayBuffer(audioData)
Decode ==
    /\ b64State = "input"
    /\ LET r == base64ToArrayBuffer(b64In) IN
        /\ b64State' = IF r.ok THEN "ok" ELSE "error"
        /\ b64Out' = r.bytes
    /\ UNCHANGED <<b64In, fetchVars, wavVars, srtVars, uiVars>>

\* no decoding has been made
B64Idle ==
    /\ b64State = "input"
    /\ b64Out = <<>>


\* ===================================================================
\* Part 4: generateSrt
\* ===================================================================
\* A string is the sequence of its UTF-16 code units (the values of
\* charCodeAt): the regular expression has no u flag and so works on code
\* units, and every code point trim removes is a single code unit.

\* the code units of the class [.!?\n\r]: '.', '!', '?', LF, CR
Terminators == {46, 33, 63, 10, 13}

\* the WhiteSpace code points of ECMAScript: TAB, VT, FF, U+FEFF and the
\* space separators SP, U+00A0, U+1680, U+2000..U+200A, U+202F, U+205F,
\* U+3000
WhiteSpace ==
    {9, 11, 12, 65279, 32, 160, 5760} \cup (8192..8202)
    \cup {8239, 8287, 12288}

\* the LineTerminator code points of ECMAScript: LF, CR, U+2028, U+2029
LineTerminator == {10, 13, 8232, 8233}

\* length of the longest prefix of str whose code units satisfy: in S
\* (inS = TRUE) or not in S (inS = FALSE)
RunLength(str, S, inS) ==
    CHOOSE k \in 0..Len(str) :
        /\ \A j \in 1..k : (str[j] \in S) = inS
        /\ k = Len(str) \/ (str[k + 1] \in S) # inS

\* text.match(/[^.!?\n\r]+[.!?\n\r]*/g): the successive matches, each a
\* longest run of non-terminators followed by the longest run of
\* terminators; terminators before a match are skipped
RECURSIVE MatchAll(_)
MatchAll(str) ==
    IF str = <<>>
    THEN <<>>
    ELSE IF Head(str) \in Terminators
    THEN MatchAll(Tail(str))
    ELSE LET a == RunLength(str, Terminators, FALSE)
             b == RunLength(SubSeq(str, a + 1, Len(str)), Terminators, TRUE)
         IN <<SubSeq(str, 1, a + b)>>
            \o MatchAll(SubSeq(str, a + b + 1, Len(str)))

\* text.match(...) || [text]   (match returns null when nothing matches)
Sentences(text) ==
    IF MatchAll(text) = <<>> THEN <<text>> ELSE MatchAll(text)

\* mutant: only the space character is removed from the ends of a sentence
trimSpacesOnly(str) ==
    LET a == RunLength(str, {32}, TRUE)
        rest == SubSeq(str, a + 1, Len(str))
        rev == [k \in 1..Len(rest) |-> rest[Len(rest) + 1 - k]]
        b == RunLength(rev, {32}, TRUE)
    IN SubSeq(rest, 1, Len(rest) - b)

\* sentence.trim(): leading and trailing white space and line terminators
\* are removed
trim(str) ==
    LET a == RunLength(str, WhiteSpace \cup LineTerminator, TRUE)
        rest == SubSeq(str, a + 1, Len(str))
        rev == [k \in 1..Len(rest) |-> rest[Len(rest) + 1 - k]]
        b == RunLength(rev, WhiteSpace \cup LineTerminator, TRUE)
    IN SubSeq(rest, 1, Len(rest) - b)

\* n.toString() for a non-negative integer: its decimal digits ('0' is 48)
RECURSIVE toString(_)
toString(n) ==
    IF n < 10 THEN <<48 + n>> ELSE toString(n \div 10) \o <<48 + (n % 10)>>

\* str.padStart(n, '0')
RECURSIVE padStart(_, _)
padStart(str, n) == IF Len(str) >= n THEN str ELSE padStart(<<48>> \o str, n)

\* formatTime(ms): `${h}:${m}:${s},${msPart}`  (':' is 58, ',' is 44)
formatTime(ms) ==
    LET h == padStart(toString(ms \div 3600000), 2)
        m == padStart(toString((ms % 3600000) \div 60000), 2)
        sec == padStart(toString((ms % 60000) \div 1000), 2)
        msPart == padStart(toString(ms % 1000), 3)
    IN h \o <<58>> \o m \o <<58>> \o sec \o <<44>> \o msPart

\* one iteration of sentences.forEach: the text appended to srt for the
\* sentence at position index (0-based) when the iteration starts at time
\* (LF is 10; ' --> ' is 32, 45, 45, 62, 32)
CueText(sentence, index, time) ==
    toString(index + 1) \o <<10>>
    \o formatTime(time) \o <<32, 45, 45, 62, 32>>
    \o formatTime(time + DurationPerSentence) \o <<10>>
    \o trim(sentence) \o <<10, 10>>

\* sentences.forEach from position index on, with the running values of
\* time (advanced by durationPerSentence per sentence) and srt
RECURSIVE ForEachSentence(_, _, _, _)
ForEachSentence(sentences, index, time, srt) ==
    IF index >= Len(sentences)
    THEN srt
    ELSE ForEachSentence(sentences, index + 1, time + DurationPerSentence,
                         srt \o CueText(sentences[index + 1], index, time))

\* mutant: every cue starts at 0 (time is not advanced between sentences)
generateSrtTimeNotAdvanced(text) ==
    LET sentences == Sentences(text)
        cue(k) == CueText(sentences[k], k - 1, 0)
        RECURSIVE all(_)
        all(k) == IF k = 0 THEN <<>> ELSE all(k - 1) \o cue(k)
    IN all(Len(sentences))

\* generateSrt(text)
generateSrt(text) == ForEachSentence(Sentences(text), 0, 0, <<>>)

\* code units the enumerated texts are built from: 'a', '.', space, LF,
\* form feed, U+00A0
SrtChars == {97, 46, 32, 10, 12, 160}

\* code units around every range trim removes: the removed ones and their
\* neighbours, among them U+0085, U+180E and U+200B, which trim keeps
ProbeUnits ==
    (8..14) \cup (31..33) \cup {133} \cup (159..161) \cup (5759..5761)
    \cup {6158} \cup (8191..8203) \cup (8231..8234) \cup (8238..8240)
    \cup (8286..8288) \cup (12287..12289) \cup (65278..65280)

\* texts with a probed code unit before, inside and after a sentence
ProbeTexts ==
    {<<p, 97, 46, q, 97>> : p, q \in ProbeUnits}
    \cup {<<97, p, 97, q>> : p, q \in ProbeUnits}

\* n copies of the sentence "a."
RECURSIVE RepeatSentence(_)
RepeatSentence(n) ==
    IF n = 0 THEN <<>> ELSE <<97, 46>> \o RepeatSentence(n - 1)

SrtTexts ==
    UNION {[1..m -> SrtChars] : m \in 0..MaxSrtLen}
    \cup ProbeTexts
    \cup {RepeatSentence(LongSentences), RepeatSentence(2 * LongSentences)}

\* const srtContent = generateSrt(textContent)
GenerateSrt ==
    /\ srtState = "input"
    /\ srtState' = "done"
    /\ srtOut' = generateSrt(srtText)
    /\ UNCHANGED <<srtText, fetchVars, wavVars, b64Vars, uiVars>>

\* generateSrt has not been called
SrtIdle ==
    /\ srtState = "input"
    /\ srtOut = <<>>


\* ===================================================================
\* Part 5: the generation handlers of the three components
\* ===================================================================
\* "tts": App.jsx handleGenerateAudio;  "gen": App.js handleGenerate;
\* "trans": App.js handleTranslate.  A handler is an async function: each
\* action is the code between two awaits.

Components == {"tts", "gen", "trans"}
\* the text field is empty, holds white space only, holds a text, or holds
\* a text starting with https://github.com/ (for "trans": a file or link)
InputSet == {"empty", "blank", "text", "github"}

\* base64 payloads of inlineData.data: 2 bytes, 3 bytes, not base64
EvenData == <<"A", "A", "A", "=">>
OddData == <<"A", "A", "A", "A">>
BadData == <<"!">>
\* String(undefined), what atob receives when inlineData.data is missing
UndefinedText == <<"u", "n", "d", "e", "f", "i", "n", "e", "d">>

\* values of inlineData.mimeType, as sequences of characters
MimeL16 == <<"a", "u", "d", "i", "o", "/", "L", "1", "6">>
MimeAudio == <<"a", "u", "d", "i", "o", "/">>
MimePlain == <<"t", "e", "x", "t", "/", "p", "l", "a", "i", "n">>

\* the parsed body of the audio response: json (it parses), candidates
\* (result.candidates[0].content.parts[0] exists), inline (it has
\* inlineData), mime and data, both strings (hasMime, hasData = FALSE: the
\* property is undefined)
NoBody ==
    [present |-> FALSE, json |-> FALSE, candidates |-> FALSE,
     inline |-> FALSE, hasMime |-> FALSE, mime |-> <<>>,
     hasData |-> FALSE, data |-> <<>>]
MakeBody(j, c, n, hm, m, hd, d) ==
    [present |-> TRUE, json |-> j, candidates |-> c, inline |-> n,
     hasMime |-> hm, mime |-> m, hasData |-> hd, data |-> d]
\* <<defined, value>> of mimeType and of data
MimeOptions ==
    {<<FALSE, <<>>>>, <<TRUE, MimeL16>>, <<TRUE, MimeAudio>>,
     <<TRUE, MimePlain>>}
DataOptions ==
    {<<FALSE, <<>>>>, <<TRUE, <<>>>>, <<TRUE, EvenData>>, <<TRUE, OddData>>,
     <<TRUE, BadData>>}
BodySet ==
    { MakeBody(FALSE, FALSE, FALSE, FALSE, <<>>, FALSE, <<>>),
      MakeBody(TRUE, FALSE, FALSE, FALSE, <<>>, FALSE, <<>>),
      MakeBody(TRUE, TRUE, FALSE, FALSE, <<>>, FALSE, <<>>) }
    \cup { MakeBody(TRUE, TRUE, TRUE, m[1], m[2], d[1], d[2]) :
             m \in MimeOptions, d \in DataOptions }

\* mimeType.startsWith("audio/")
StartsWithAudio(m) ==
    Len(m) >= 6 /\ SubSeq(m, 1, 6) = <<"a", "u", "d", "i", "o", "/">>

\* audioData && mimeType && mimeType.startsWith("audio/"): undefined and the
\* empty string are falsy
AudioFieldTest(b) ==
    /\ b.candidates /\ b.inline
    /\ b.hasData /\ b.data # <<>>
    /\ b.hasMime /\ b.mime # <<>>
    /\ StartsWithAudio(b.mime)

\* base64ToArrayBuffer followed by new Int16Array (in the handler or inside
\* pcmToWav) throws: the text is not base64 or the byte length is odd
DecodeThrows(text) ==
    LET r == base64ToArrayBuffer(text)
    IN ~r.ok \/ Len(r.bytes) % 2 = 1

\* URL.createObjectURL(blob): a URL not handed out before
NewUrl == Cardinality(created) + 1

\* the value of a state after its setter was called with new: React ignores
\* the call once the component has been torn down
SetState(new, old) == IF mounted THEN new ELSE old

\* catch (err) { setError(...) } finally { setLoading(false) }
CatchFinally ==
    /\ uError' = SetState("exception", uError)
    /\ loading' = SetState(FALSE, loading)
    /\ hpc' = "idle"

\* the invocation of exponentialBackoffFetch made by the handler is over
ReleaseCall ==
    /\ pc' = [pc EXCEPT ![1] = "idle"]
    /\ retries' = [retries EXCEPT ![1] = 0]
    /\ delay' = [delay EXCEPT ![1] = DefaultDelay]
    /\ i' = [i EXCEPT ![1] = 0]
    /\ sent' = [sent EXCEPT ![1] = 0]
    /\ waits' = [waits EXCEPT ![1] = <<>>]
    /\ fired' = [fired EXCEPT ![1] = 0]
    /\ hist' = [hist EXCEPT ![1] = <<>>]
    /\ result' = [result EXCEPT ![1] = NoResult]

\* ------------------------------------------- App.jsx handleGenerateAudio
\* click on the button (disabled={loading || !text.trim()}): the handler
\* runs up to `await exponentialBackoffFetch(apiUrl, {...})`
handleGenerateAudio ==
    /\ comp = "tts" /\ mounted /\ hpc = "idle"
    /\ ~loading /\ uInput \in {"text", "github"}
    /\ runs < MaxRuns
    /\ runs' = runs + 1
    /\ loading' = TRUE
    /\ uError' = ""
    /\ audioUrl' = 0
    /\ retries' = [retries EXCEPT ![1] = DefaultRetries]
    /\ delay' = [delay EXCEPT ![1] = DefaultDelay]
    /\ i' = [i EXCEPT ![1] = 0]
    /\ LoopHead(1, 0, DefaultRetries)
    /\ hpc' = "awaitExec"
    /\ body' = NoBody /\ audioStatus' = 0 /\ audioSent' = 0
    /\ UNCHANGED <<waits, fired, hist, comp, mounted, uInput, srtUrl,
                   created, revoked, translated, playVars,
                   wavVars, b64Vars, srtVars>>

\* exponentialBackoffFetch has settled: a thrown error (or the undefined
\* response, on which response.json() throws a TypeError) goes to the catch
\* block; with a response the handler goes on to `await response.json()`
handleGenerateAudio_Settled ==
    /\ comp = "tts" /\ hpc = "awaitExec" /\ pc[1] = "done"
    /\ IF result[1].kind = "return"
       THEN /\ hpc' = "awaitJson"
            /\ audioStatus' = result[1].status
            /\ UNCHANGED <<fetchVars, loading, uError, audioSent>>
       ELSE /\ CatchFinally
            /\ audioSent' = sent[1]
            /\ ReleaseCall
            /\ audioStatus' = audioStatus
    /\ UNCHANGED <<comp, mounted, uInput, audioUrl, srtUrl, created, revoked,
                   body, runs, translated, playVars,
                   wavVars, b64Vars, srtVars>>

\* response.json() settled with body b: the rest of the handler
handleGenerateAudio_Json ==
    /\ comp = "tts" /\ hpc = "awaitJson"
    /\ \E b \in BodySet :
        /\ body' = b
        /\ IF ~b.json
           THEN CatchFinally /\ UNCHANGED <<audioUrl, created>>
           ELSE IF AudioFieldTest(b)
           THEN IF DecodeThrows(b.data)
                THEN CatchFinally /\ UNCHANGED <<audioUrl, created>>
                ELSE /\ created' = created \cup {NewUrl}
                     /\ audioUrl' = SetState(NewUrl, audioUrl)
                     /\ loading' = SetState(FALSE, loading)
                     /\ hpc' = "idle"
                     /\ uError' = uError
           ELSE /\ uError' = SetState("failed", uError)
                /\ loading' = SetState(FALSE, loading)
                /\ hpc' = "idle"
                /\ UNCHANGED <<audioUrl, created>>
    /\ audioSent' = sent[1]
    /\ ReleaseCall
    /\ UNCHANGED <<comp, mounted, uInput, srtUrl, revoked, audioStatus, runs,
                   translated, playVars, wavVars, b64Vars, srtVars>>

\* ------------------------------------------------- App.js handleGenerate
\* mutant: the input is tested without trim()
handleGenerateNoTrim ==
    /\ comp = "gen" /\ mounted /\ hpc = "idle" /\ ~loading
    /\ IF uInput = "empty"
       THEN /\ uError' = "input"
            /\ UNCHANGED <<hpc, loading, audioUrl, srtUrl, audioSent,
                           audioStatus, body, runs>>
       ELSE /\ runs < MaxRuns
            /\ runs' = runs + 1
            /\ loading' = TRUE
            /\ audioUrl' = 0
            /\ srtUrl' = 0
            /\ uError' = ""
            /\ body' = NoBody /\ audioStatus' = 0
            /\ IF uInput = "github"
               THEN hpc' = "awaitRaw" /\ audioSent' = 0
               ELSE hpc' = "awaitAudio" /\ audioSent' = 1
    /\ UNCHANGED <<comp, mounted, uInput, created, revoked, translated,
                   playVars, fetchVars, wavVars, b64Vars, srtVars>>

\* click on the button (disabled={isLoading}): the handler runs up to its
\* first await, the fetch of the raw GitHub file or the fetch of the audio
handleGenerate ==
    /\ comp = "gen" /\ mounted /\ hpc = "idle" /\ ~loading
    /\ IF uInput \in {"empty", "blank"}
       THEN /\ uError' = "input"
            /\ UNCHANGED <<hpc, loading, audioUrl, srtUrl, audioSent,
                           audioStatus, body, runs>>
       ELSE /\ runs < MaxRuns
            /\ runs' = runs + 1
            /\ loading' = TRUE
            /\ audioUrl' = 0
            /\ srtUrl' = 0
            /\ uError' = ""
            /\ body' = NoBody /\ audioStatus' = 0
            /\ IF uInput = "github"
               THEN hpc' = "awaitRaw" /\ audioSent' = 0
               ELSE hpc' = "awaitAudio" /\ audioSent' = 1
    /\ UNCHANGED <<comp, mounted, uInput, created, revoked, translated,
                   playVars, fetchVars, wavVars, b64Vars, srtVars>>

\* fetch(rawUrl) settled: a rejection or a response that is not ok goes to
\* the catch block, an ok response to `await response.text()`
handleGenerate_Raw ==
    /\ comp = "gen" /\ hpc = "awaitRaw"
    /\ \E o \in OutcomeSet :
        IF o.kind = "response" /\ Ok(o.status)
        THEN /\ hpc' = "awaitText"
             /\ UNCHANGED <<loading, uError>>
        ELSE CatchFinally
    /\ UNCHANGED <<comp, mounted, uInput, audioUrl, srtUrl, created, revoked,
                   audioSent, audioStatus, body, runs, translated, playVars,
                   fetchVars, wavVars, b64Vars, srtVars>>

\* response.text() settled: rejected, the empty string (!textContent) or a
\* text, with which the audio request is sent
handleGenerate_Text ==
    /\ comp = "gen" /\ hpc = "awaitText"
    /\ \E o \in {"reject", "emptyText", "text"} :
        IF o = "text"
        THEN /\ hpc' = "awaitAudio"
             /\ audioSent' = 1
             /\ UNCHANGED <<loading, uError>>
        ELSE CatchFinally /\ audioSent' = audioSent
    /\ UNCHANGED <<comp, mounted, uInput, audioUrl, srtUrl, created, revoked,
                   audioStatus, body, runs, translated, playVars,
                   fetchVars, wavVars, b64Vars, srtVars>>

\* the fetch of the audio settled: `if (!audioResponse.ok) throw`, else
\* `await audioResponse.json()`
handleGenerate_Audio ==
    /\ comp = "gen" /\ hpc = "awaitAudio"
    /\ \E o \in OutcomeSet :
        IF o.kind = "response" /\ Ok(o.status)
        THEN /\ hpc' = "awaitJson"
             /\ audioStatus' = o.status
             /\ UNCHANGED <<loading, uError>>
        ELSE CatchFinally /\ audioStatus' = audioStatus
    /\ UNCHANGED <<comp, mounted, uInput, audioUrl, srtUrl, created, revoked,
                   audioSent, body, runs, translated, playVars,
                   fetchVars, wavVars, b64Vars, srtVars>>

\* mutant: setIsLoading(false) at the end of the try block, no finally
handleGenerate_JsonNoFinally ==
    /\ comp = "gen" /\ hpc = "awaitJson"
    /\ \E b \in BodySet :
        /\ body' = b
        /\ IF b.json /\ AudioFieldTest(b) /\ ~DecodeThrows(b.data)
           THEN /\ created' = created \cup {NewUrl, NewUrl + 1}
                /\ audioUrl' = SetState(NewUrl, audioUrl)
                /\ srtUrl' = SetState(NewUrl + 1, srtUrl)
                /\ loading' = SetState(FALSE, loading)
                /\ hpc' = "idle"
                /\ uError' = uError
           ELSE /\ uError' = SetState("exception", uError)
                /\ loading' = loading
                /\ hpc' = "idle"
                /\ UNCHANGED <<audioUrl, srtUrl, created>>
    /\ UNCHANGED <<comp, mounted, uInput, revoked, audioSent, audioStatus,
                   runs, translated, playVars,
                   fetchVars, wavVars, b64Vars, srtVars>>

\* audioResponse.json() settled with body b: the rest of the handler
handleGenerate_Json ==
    /\ comp = "gen" /\ hpc = "awaitJson"
    /\ \E b \in BodySet :
        /\ body' = b
        /\ IF b.json /\ AudioFieldTest(b) /\ ~DecodeThrows(b.data)
           THEN /\ created' = created \cup {NewUrl, NewUrl + 1}
                /\ audioUrl' = SetState(NewUrl, audioUrl)
                /\ srtUrl' = SetState(NewUrl + 1, srtUrl)
                /\ loading' = SetState(FALSE, loading)
                /\ hpc' = "idle"
                /\ uError' = uError
           ELSE CatchFinally /\ UNCHANGED <<audioUrl, srtUrl, created>>
    /\ UNCHANGED <<comp, mounted, uInput, revoked, audioSent, audioStatus,
                   runs, translated, playVars,
                   fetchVars, wavVars, b64Vars, srtVars>>

\* ------------------------------------------------ App.js handleTranslate
\* click on the button (disabled={isLoading || (!file && !youtubeUrl)}):
\* the handler runs up to the first simulated delay
handleTranslate ==
    /\ comp = "trans" /\ mounted /\ hpc = "idle"
    /\ ~loading /\ uInput # "empty"
    /\ runs < MaxRuns
    /\ runs' = runs + 1
    /\ uError' = ""
    /\ loading' = TRUE
    /\ audioUrl' = 0
    /\ hpc' = "awaitTimer1"
    /\ translated' = "none"
    /\ body' = NoBody /\ audioStatus' = 0 /\ audioSent' = 0
    /\ UNCHANGED <<comp, mounted, uInput, srtUrl, created, revoked, playVars,
                   fetchVars, wavVars, b64Vars, srtVars>>

\* the 2000 ms timer elapsed: the translation request is sent
handleTranslate_Timer1 ==
    /\ comp = "trans" /\ hpc = "awaitTimer1"
    /\ hpc' = "awaitTranslation"
    /\ UNCHANGED <<comp, mounted, uInput, loading, uError, audioUrl, srtUrl,
                   created, revoked, audioSent, audioStatus, body, runs,
                   translated, playVars,
                   fetchVars, wavVars, b64Vars, srtVars>>

\* the translation request settled: a rejection goes to the catch block, a
\* response of any status to `await translationResponse.json()`
handleTranslate_Translation ==
    /\ comp = "trans" /\ hpc = "awaitTranslation"
    /\ \E o \in OutcomeSet :
        IF o.kind = "response"
        THEN /\ hpc' = "awaitTranslationJson"
             /\ UNCHANGED <<loading, uError>>
        ELSE CatchFinally
    /\ UNCHANGED <<comp, mounted, uInput, audioUrl, srtUrl, created, revoked,
                   audioSent, audioStatus, body, runs, translated, playVars,
                   fetchVars, wavVars, b64Vars, srtVars>>

\* translationResponse.json() settled: rejected, without candidates, with a
\* missing or falsy text, with a text that is a string, or with a truthy
\* text that is not a string; with a text the audio request is sent
handleTranslate_TranslationJson ==
    /\ comp = "trans" /\ hpc = "awaitTranslationJson"
    /\ \E o \in {"invalidJson", "noCandidates", "noText", "string", "other"} :
        IF o \in {"string", "other"}
        THEN /\ translated' = o
             /\ hpc' = "awaitAudio"
             /\ audioSent' = 1
             /\ UNCHANGED <<loading, uError>>
        ELSE CatchFinally /\ UNCHANGED <<audioSent, translated>>
    /\ UNCHANGED <<comp, mounted, uInput, audioUrl, srtUrl, created, revoked,
                   audioStatus, body, runs, playVars,
                   fetchVars, wavVars, b64Vars, srtVars>>

\* the audio request settled; the status of the response is not looked at
handleTranslate_Audio ==
    /\ comp = "trans" /\ hpc = "awaitAudio"
    /\ \E o \in OutcomeSet :
        IF o.kind = "response"
        THEN /\ hpc' = "awaitJson"
             /\ audioStatus' = o.status
             /\ UNCHANGED <<loading, uError>>
        ELSE CatchFinally /\ audioStatus' = audioStatus
    /\ UNCHANGED <<comp, mounted, uInput, audioUrl, srtUrl, created, revoked,
                   audioSent, body, runs, translated, playVars,
                   fetchVars, wavVars, b64Vars, srtVars>>

\* audioResponse.json() settled with body b: the test of candidates and
\* inlineData, the conversion, createObjectURL, then the 1000 ms delay
handleTranslate_Json ==
    /\ comp = "trans" /\ hpc = "awaitJson"
    /\ \E b \in BodySet :
        /\ body' = b
        /\ IF ~b.json \/ ~b.candidates \/ ~b.inline
           THEN CatchFinally /\ UNCHANGED <<audioUrl, created>>
           ELSE IF DecodeThrows(IF b.hasData THEN b.data ELSE UndefinedText)
           THEN CatchFinally /\ UNCHANGED <<audioUrl, created>>
           ELSE /\ created' = created \cup {NewUrl}
                /\ audioUrl' = SetState(NewUrl, audioUrl)
                /\ hpc' = "awaitTimer2"
                /\ UNCHANGED <<loading, uError>>
    /\ UNCHANGED <<comp, mounted, uInput, srtUrl, revoked, audioSent,
                   audioStatus, runs, translated, playVars,
                   fetchVars, wavVars, b64Vars, srtVars>>

\* the 1000 ms timer elapsed: the SRT text is built with
\* translatedText.replace, which throws a TypeError when the text is not a
\* string; then setSrtContent and the finally block
handleTranslate_Timer2 ==
    /\ comp = "trans" /\ hpc = "awaitTimer2"
    /\ IF translated = "string"
       THEN /\ loading' = SetState(FALSE, loading)
            /\ hpc' = "idle"
            /\ uError' = uError
       ELSE CatchFinally
    /\ UNCHANGED <<comp, mounted, uInput, audioUrl, srtUrl,
                   created, revoked, audioSent, audioStatus, body, runs,
                   translated, playVars,
                   fetchVars, wavVars, b64Vars, srtVars>>

\* -------------------------------------------------- App.js handlePlayAudio
\* click on the play button (shown while translatedAudioUrl is set,
\* disabled={isPlaying}): new Audio(url).play() is called
handlePlayAudio ==
    /\ comp = "trans" /\ mounted
    /\ audioUrl # 0 /\ ~isPlaying
    /\ pendingPlays + startedPlays + activePlays < MaxPlays
    /\ pendingPlays' = pendingPlays + 1
    /\ UNCHANGED <<comp, mounted, uInput, hpc, loading, uError, audioUrl,
                   srtUrl, created, revoked, audioSent, audioStatus, body,
                   runs, translated, startedPlays, activePlays, isPlaying,
                   fetchVars, wavVars, b64Vars, srtVars>>

\* the play event of an Audio: audio.onplay calls setIsPlaying(true); the
\* promise of play() is still unsettled
handlePlayAudio_Play ==
    /\ pendingPlays > 0
    /\ pendingPlays' = pendingPlays - 1
    /\ startedPlays' = startedPlays + 1
    /\ isPlaying' = SetState(TRUE, isPlaying)
    /\ UNCHANGED <<comp, mounted, uInput, hpc, loading, uError, audioUrl,
                   srtUrl, created, revoked, audioSent, audioStatus, body,
                   runs, translated, activePlays,
                   fetchVars, wavVars, b64Vars, srtVars>>

\* the promise of play() is fulfilled (playback runs): no callback of the
\* component is attached to it
handlePlayAudio_Resolved ==
    /\ startedPlays > 0
    /\ startedPlays' = startedPlays - 1
    /\ activePlays' = activePlays + 1
    /\ UNCHANGED <<comp, mounted, uInput, hpc, loading, uError, audioUrl,
                   srtUrl, created, revoked, audioSent, audioStatus, body,
                   runs, translated, pendingPlays, isPlaying,
                   fetchVars, wavVars, b64Vars, srtVars>>

\* the promise of play() is rejected, before a play event (playback not
\* allowed) or after it (the source failed): the catch callback calls
\* setError; that Audio never ends
handlePlayAudio_Rejected ==
    /\ \/ /\ pendingPlays > 0
          /\ pendingPlays' = pendingPlays - 1
          /\ startedPlays' = startedPlays
       \/ /\ startedPlays > 0
          /\ startedPlays' = startedPlays - 1
          /\ pendingPlays' = pendingPlays
    /\ uError' = SetState("play", uError)
    /\ UNCHANGED <<comp, mounted, uInput, hpc, loading, audioUrl,
                   srtUrl, created, revoked, audioSent, audioStatus, body,
                   runs, translated, activePlays, isPlaying,
                   fetchVars, wavVars, b64Vars, srtVars>>

\* playback ended: audio.onended calls setIsPlaying(false)
handlePlayAudio_Ended ==
    /\ activePlays > 0
    /\ activePlays' = activePlays - 1
    /\ isPlaying' = SetState(FALSE, isPlaying)
    /\ UNCHANGED <<comp, mounted, uInput, hpc, loading, uError, audioUrl,
                   srtUrl, created, revoked, audioSent, audioStatus, body,
                   runs, translated, pendingPlays, startedPlays,
                   fetchVars, wavVars, b64Vars, srtVars>>

\* ----------------------------------------------------- the environment
\* the user edits the input: the textarea of App.jsx is disabled while
\* loading, the inputs of the two App.js components are never disabled
SetInput ==
    /\ mounted
    /\ comp = "tts" => ~loading
    /\ \E v \in InputSet : v # uInput /\ uInput' = v
    /\ UNCHANGED <<comp, mounted, hpc, loading, uError, audioUrl, srtUrl,
                   created, revoked, audioSent, audioStatus, body, runs,
                   translated, playVars,
                   fetchVars, wavVars, b64Vars, srtVars>>

\* the component is torn down, at any time: a handler that awaits goes on
\* afterwards.  No effect cleanup of these components revokes a URL (the
\* useEffect at App.jsx:278 is outside the component)
Unmount ==
    /\ mounted
    /\ mounted' = FALSE
    /\ UNCHANGED <<comp, uInput, hpc, loading, uError, audioUrl, srtUrl,
                   created, revoked, audioSent, audioStatus, body, runs,
                   translated, playVars,
                   fetchVars, wavVars, b64Vars, srtVars>>

\* no handler has run
UiIdle ==
    /\ mounted = TRUE
    /\ hpc = "idle"
    /\ loading = FALSE
    /\ uError = ""
    /\ audioUrl = 0
    /\ srtUrl = 0
    /\ created = {}
    /\ revoked = {}
    /\ audioSent = 0
    /\ audioStatus = 0
    /\ body = NoBody
    /\ runs = 0
    /\ translated = "none"
    /\ pendingPlays = 0
    /\ startedPlays = 0
    /\ activePlays = 0
    /\ isPlaying = FALSE

\* --------------------------------------------------------- specification
\* no invocation of exponentialBackoffFetch has been made
FetchIdle ==
    /\ pc = [c \in Calls |-> "idle"]
    /\ retries = [c \in Calls |-> 0]
    /\ delay = [c \in Calls |-> DefaultDelay]
    /\ i = [c \in Calls |-> 0]
    /\ sent = [c \in Calls |-> 0]
    /\ waits = [c \in Calls |-> <<>>]
    /\ fired = [c \in Calls |-> 0]
    /\ hist = [c \in Calls |-> <<>>]
    /\ result = [c \in Calls |-> NoResult]

\* no conversion has been made
WavIdle ==
    /\ wavImpl = "none"
    /\ wavOut = <<>>
    /\ wavErr = "none"

Init ==
    /\ FetchIdle
    /\ WavIdle
    /\ pcmIn = <<>>
    /\ rate = Digits(16000)
    /\ B64Idle
    /\ b64In = <<>>
    /\ SrtIdle
    /\ srtText = <<>>
    /\ UiIdle
    /\ comp = "tts"
    /\ uInput = "empty"

Next ==
    \/ \E c \in Calls : Invoke(c)
    \/ \E c \in Calls : FetchResolve(c)
    \/ \E c \in Calls : FetchReject(c)
    \/ \E c \in Calls : TimerFire(c)

Spec == Init /\ [][Next]_vars

\* the transcoder alone: one conversion of an arbitrary buffer and rate
WavInit ==
    /\ FetchIdle
    /\ WavIdle
    /\ pcmIn \in BytesUpTo(MaxPcmLen)
    /\ rate \in RateSet
    /\ B64Idle
    /\ b64In = <<>>
    /\ SrtIdle
    /\ srtText = <<>>
    /\ UiIdle
    /\ comp = "tts"
    /\ uInput = "empty"

WavNext == EncodeJsx \/ EncodeBuffer \/ EncodeInt16

WavSpec == WavInit /\ [][WavNext]_vars

\* the decoder alone: one call on an arbitrary argument
B64Init ==
    /\ FetchIdle
    /\ WavIdle
    /\ pcmIn = <<>>
    /\ rate = Digits(16000)
    /\ B64Idle
    /\ b64In \in B64Inputs
    /\ SrtIdle
    /\ srtText = <<>>
    /\ UiIdle
    /\ comp = "tts"
    /\ uInput = "empty"

B64Next == Decode

B64Spec == B64Init /\ [][B64Next]_vars

\* generateSrt alone: one call on an arbitrary text
SrtInit ==
    /\ FetchIdle
    /\ WavIdle
    /\ pcmIn = <<>>
    /\ rate = Digits(16000)
    /\ B64Idle
    /\ b64In = <<>>
    /\ SrtIdle
    /\ srtText \in SrtTexts
    /\ UiIdle
    /\ comp = "tts"
    /\ uInput = "empty"

SrtNext == GenerateSrt

SrtSpec == SrtInit /\ [][SrtNext]_vars

\* one component with its handler, the user and the network
UiInit ==
    /\ FetchIdle
    /\ WavIdle
    /\ pcmIn = <<>>
    /\ rate = Digits(16000)
    /\ B64Idle
    /\ b64In = <<>>
    /\ SrtIdle
    /\ srtText = <<>>
    /\ mounted = TRUE
    /\ hpc = "idle"
    /\ loading = FALSE
    /\ comp \in Components
    /\ uInput = "empty"
    /\ uError \in (IF comp = "gen" THEN {"", "firebase"} ELSE {""})
    /\ audioUrl = 0
    /\ srtUrl = 0
    /\ created = {}
    /\ revoked = {}
    /\ audioSent = 0
    /\ audioStatus = 0
    /\ body = NoBody
    /\ runs = 0
    /\ translated = "none"
    /\ pendingPlays = 0
    /\ startedPlays = 0
    /\ activePlays = 0
    /\ isPlaying = FALSE

\* the steps that end an await of a handler
UiContinue ==
    \/ FetchResolve(1)
    \/ FetchReject(1)
    \/ TimerFire(1)
    \/ handleGenerateAudio_Settled
    \/ handleGenerateAudio_Json
    \/ handleGenerate_Raw
    \/ handleGenerate_Text
    \/ handleGenerate_Audio
    \/ handleGenerate_Json
    \/ handleTranslate_Timer1
    \/ handleTranslate_Translation
    \/ handleTranslate_TranslationJson
    \/ handleTranslate_Audio
    \/ handleTranslate_Json
    \/ handleTranslate_Timer2

UiNext ==
    \/ handleGenerateAudio
    \/ handleGenerate
    \/ handleTranslate
    \/ handlePlayAudio
    \/ handlePlayAudio_Play
    \/ handlePlayAudio_Resolved
    \/ handlePlayAudio_Rejected
    \/ handlePlayAudio_Ended
    \/ SetInput
    \/ Unmount
    \/ UiContinue

UiSpec == UiInit /\ [][UiNext]_vars

\* every awaited request, json() and timer settles
UiFairSpec == UiSpec /\ WF_vars(UiContinue)

\* every request completes and every timer fires
FairSpec ==
    /\ Spec
    /\ \A c \in Calls :
        /\ WF_vars(FetchResolve(c) \/ FetchReject(c))
        /\ WF_vars(TimerFire(c))

TypeOK ==
    /\ pc \in [Calls -> {"idle", "fetch", "sleep", "done"}]
    /\ \A c \in Calls : retries[c] \in RetriesOf(c) \cup {DefaultRetries}
    /\ comp \in Components
    /\ mounted \in BOOLEAN
    /\ uInput \in InputSet
    /\ hpc \in {"idle", "awaitExec", "awaitJson", "awaitRaw", "awaitText",
                "awaitAudio", "awaitTimer1", "awaitTranslation",
                "awaitTranslationJson", "awaitTimer2"}
    /\ loading \in BOOLEAN
    /\ uError \in {"", "input", "failed", "exception", "firebase", "play"}
    /\ audioUrl \in 0..(2 * MaxRuns)
    /\ srtUrl \in 0..(2 * MaxRuns)
    /\ created \subseteq 1..(2 * MaxRuns)
    /\ revoked \subseteq created
    /\ audioSent \in 0..DefaultRetries
    /\ audioStatus \in StatusSet \cup {0}
    /\ body \in BodySet \cup {NoBody}
    /\ runs \in 0..MaxRuns
    /\ translated \in {"none", "string", "other"}
    /\ pendingPlays \in 0..MaxPlays
    /\ startedPlays \in 0..MaxPlays
    /\ activePlays \in 0..MaxPlays
    /\ isPlaying \in BOOLEAN
    /\ delay \in [Calls -> DelaySet]
    /\ \A c \in Calls : i[c] \in Nat /\ sent[c] \in Nat /\ fired[c] \in Nat
    /\ \A c \in Calls : \A k \in 1..Len(hist[c]) : hist[c][k] \in OutcomeSet
    /\ wavImpl \in {"none", "jsx", "buffer", "int16"}
    /\ wavErr \in {"none", "RangeError"}

\* ===================================================================
\* Properties of exponentialBackoffFetch
\* ===================================================================
\* the status is a success status (2xx)
IsSuccess(s) == s \in 200..299
\* the k-th completed request (1-based) of invocation c
IsRejected(c, k) == hist[c][k].kind = "reject"
IsStatus(c, k, s) == hist[c][k].kind = "response" /\ hist[c][k].status = s
\* d * 2^0, ..., d * 2^(n-1)
DoublingWaits(d, n) == [k \in 1..n |-> d * (2 ^ (k - 1))]

\* C1: a response with a non-success status other than 429 makes the
\* invocation fail on that very attempt: the invocation is over with the
\* API error of that attempt, no wait follows and no further request is sent.
C1_NonTransientFailsAtOnce ==
    \A c \in Calls : \A k \in 1..Len(hist[c]) :
        ( /\ retries[c] >= 1
          /\ hist[c][k].kind = "response"
          /\ ~IsSuccess(hist[c][k].status)
          /\ hist[c][k].status # 429 )
        => /\ pc[c] = "done"
           /\ result[c] = ThrownApi(hist[c][k].status, k - 1)
           /\ sent[c] = k
           /\ Len(waits[c]) = k - 1

\* C2: when every request is rejected by the transport and retries = n >= 1,
\* the finished invocation has sent exactly n requests, waited exactly n-1
\* times and thrown; while it runs it never exceeds these numbers.
C2_AllRejectedExhausts ==
    \A c \in Calls :
        ( /\ retries[c] >= 1
          /\ \A k \in 1..Len(hist[c]) : IsRejected(c, k) )
        => /\ sent[c] <= retries[c]
           /\ Len(waits[c]) <= retries[c] - 1
           /\ result[c].kind \in {"none", "throw"}
           /\ pc[c] = "done" =>
                /\ sent[c] = retries[c]
                /\ Len(hist[c]) = retries[c]
                /\ Len(waits[c]) = retries[c] - 1
                /\ fired[c] = retries[c] - 1
                /\ result[c] = ThrownTransport(retries[c] - 1)
           /\ Len(hist[c]) = retries[c] => pc[c] = "done"

C2_Witness ==
    \E c \in Calls :
        /\ retries[c] = 3
        /\ pc[c] = "done"
        /\ Len(hist[c]) = 3
        /\ \A k \in 1..3 : IsRejected(c, k)
        /\ result[c].kind = "throw"

\* C3: 429 on the first n attempts and 200 on attempt n+1, n < retries: the
\* invocation returns that 200 response after exactly the n waits
\* delay*2^0, ..., delay*2^(n-1), and every request after the first is sent
\* only when the wait before it has elapsed.
C3_RateLimitedThenSuccess ==
    \A c \in Calls :
        LET n == Len(hist[c]) - 1 IN
        /\ ( /\ Len(hist[c]) >= 1
             /\ n < retries[c]
             /\ \A k \in 1..n : IsStatus(c, k, 429)
             /\ IsStatus(c, n + 1, 200) )
           => /\ pc[c] = "done"
              /\ result[c] = Returned(200, n)
              /\ waits[c] = DoublingWaits(delay[c], n)
              /\ fired[c] = n
              /\ sent[c] = n + 1
        /\ ( /\ pc[c] = "fetch"
             /\ \A k \in 1..Len(hist[c]) : IsStatus(c, k, 429) )
           => /\ waits[c] = DoublingWaits(delay[c], Len(hist[c]))
              /\ fired[c] = Len(waits[c])
              /\ sent[c] = Len(waits[c]) + 1

C3_Witness ==
    \E c \in Calls :
        /\ retries[c] >= 4
        /\ pc[c] = "done"
        /\ Len(hist[c]) = 4
        /\ IsStatus(c, 1, 429) /\ IsStatus(c, 2, 429) /\ IsStatus(c, 3, 429)
        /\ IsStatus(c, 4, 200)
        /\ waits[c] = <<delay[c], 2 * delay[c], 4 * delay[c]>>
        /\ result[c].kind = "return"

\* C4: when the last allowed attempt (index retries-1) ends with a transport
\* error or a 429 response, the invocation throws, and the error it throws
\* is the one of that last attempt.
C4_LastAttemptFailure ==
    \A c \in Calls :
        ( /\ retries[c] >= 1
          /\ Len(hist[c]) = retries[c]
          /\ \/ IsRejected(c, retries[c])
             \/ IsStatus(c, retries[c], 429) )
        => /\ pc[c] = "done"
           /\ result[c].kind = "throw"
           /\ result[c].attempt = retries[c] - 1
           /\ IsRejected(c, retries[c])
                => result[c] = ThrownTransport(retries[c] - 1)
           /\ IsStatus(c, retries[c], 429)
                => result[c] = ThrownApi(429, retries[c] - 1)

C4_Witness ==
    \E c \in Calls :
        /\ retries[c] = 3
        /\ Len(hist[c]) = 3
        /\ IsRejected(c, 1)
        /\ IsStatus(c, 3, 429)
        /\ result[c] = ThrownApi(429, 2)

\* C5: at most `retries` requests are ever sent, and while a request is in
\* flight the loop index lies in 0..retries-1.
C5_AttemptsBounded ==
    \A c \in Calls :
        /\ sent[c] <= retries[c]
        /\ pc[c] = "fetch" => (i[c] >= 0 /\ i[c] <= retries[c] - 1)

C5_Witness ==
    \E c \in Calls :
        /\ retries[c] = 3
        /\ sent[c] = 3
        /\ pc[c] = "fetch"
        /\ i[c] = 2
        /\ \E k \in 1..2 : IsStatus(c, k, 500)

\* C6: after attempt index j < retries-1 fails by transport error or by a
\* 429 response, the wait scheduled is exactly delay * 2^j, and attempt j+1
\* is sent only after it elapsed; the waits of one invocation are delay,
\* 2*delay, 4*delay, ... in order; no wait follows the last allowed attempt.
C6_BackoffSchedule ==
    \A c \in Calls :
        /\ \A k \in 1..Len(hist[c]) :
             ( /\ k - 1 < retries[c] - 1
               /\ (IsRejected(c, k) \/ IsStatus(c, k, 429)) )
             => /\ Len(waits[c]) >= k
                /\ waits[c][k] = delay[c] * (2 ^ (k - 1))
                /\ sent[c] > k => fired[c] >= k
        /\ waits[c] = DoublingWaits(delay[c], Len(waits[c]))
        /\ Len(waits[c]) <= Len(hist[c])
        /\ retries[c] >= 1 => Len(waits[c]) <= retries[c] - 1
        /\ Len(hist[c]) = retries[c] => pc[c] # "sleep"

C6_Witness ==
    \E c \in Calls :
        /\ retries[c] = 4
        /\ Len(hist[c]) = 4
        /\ IsRejected(c, 1) /\ IsStatus(c, 2, 429) /\ IsRejected(c, 3)
        /\ IsRejected(c, 4)
        /\ waits[c] = <<delay[c], 2 * delay[c], 4 * delay[c]>>
        /\ pc[c] = "done"

\* C7: a success response is returned to the caller as it is, on the
\* attempt that received it (the first attempt included), and nothing is
\* sent or waited for after it.
C7_SuccessReturned ==
    \A c \in Calls : \A k \in 1..Len(hist[c]) :
        (hist[c][k].kind = "response" /\ IsSuccess(hist[c][k].status))
        => /\ pc[c] = "done"
           /\ result[c] = Returned(hist[c][k].status, k - 1)
           /\ Len(hist[c]) = k
           /\ sent[c] = k
           /\ Len(waits[c]) = k - 1
           /\ fired[c] = k - 1

C7_Witness ==
    \E c \in Calls :
        /\ Len(hist[c]) = 1
        /\ IsStatus(c, 1, 200)
        /\ result[c] = Returned(200, 0)
        /\ sent[c] = 1
        /\ waits[c] = <<>>

\* C8: if every request completes and every timer fires, every invocation
\* that was started ends, by returning or by throwing.
C8_Terminates ==
    \A c \in Calls : (pc[c] # "idle") ~> (pc[c] = "done")

C8_Witness ==
    \E c \in Calls :
        /\ pc[c] = "done"
        /\ retries[c] = 3
        /\ Len(hist[c]) = 3
        /\ fired[c] = 2

\* C9: concurrent invocations do not affect each other.  A step changes the
\* state of one invocation only, and what an invocation has done (requests
\* sent, waits, loop index, position, outcome) is a function of its own
\* arguments, the outcomes of its own requests and its own elapsed timers:
\* two invocations that agree on these agree on everything.
CallState(c) ==
    <<pc[c], retries[c], delay[c], i[c], sent[c], waits[c], fired[c],
      hist[c], result[c]>>

C9_OwnInputsOnly ==
    \A c, d \in Calls :
        ( /\ retries[c] = retries[d]
          /\ delay[c] = delay[d]
          /\ hist[c] = hist[d]
          /\ fired[c] = fired[d]
          /\ (pc[c] = "idle") = (pc[d] = "idle") )
        => CallState(c) = CallState(d)

C9_Independent ==
    /\ [](C9_OwnInputsOnly)
    /\ [][\A c, d \in Calls :
            (c # d /\ CallState(c)' # CallState(c))
            => CallState(d)' = CallState(d)]_vars

C9_Witness ==
    /\ pc[1] = "sleep" /\ pc[2] = "sleep"
    /\ retries[1] = 2 /\ retries[2] = 2 /\ delay[1] = delay[2]
    /\ Len(hist[1]) = 1 /\ hist[2] = hist[1]
    /\ waits[1] = <<delay[1]>> /\ waits[2] = waits[1]

\* ===================================================================
\* Properties of pcmToWav
\* ===================================================================
\* a conversion has produced a WAV buffer
Encoded == wavImpl # "none" /\ wavErr = "none"

\* a number given by digits, without its leading zero digits
RECURSIVE Canon(_)
Canon(x) ==
    IF x # <<>> /\ x[Len(x)] = 0 THEN Canon(SubSeq(x, 1, Len(x) - 1)) ELSE x

\* what a WAV reader reads back: the unsigned little-endian 32-bit field at
\* byte offset off, and n bytes from byte offset off
ReadUint32(buf, off) == Canon(SubSeq(buf, off + 1, off + 4))
ReadBytes(buf, off, n) == SubSeq(buf, off + 1, off + n)

\* C10 as stated: for every even-length buffer and every sample rate r > 0
\* the output has 44 + len(b) bytes, and reading it back gives r (field at
\* offset 24) and the bytes of b (from offset 44).
C10_RoundTripAnyRate ==
    (Encoded /\ Len(pcmIn) % 2 = 0 /\ rate # <<>>)
    => /\ Len(wavOut) = 44 + Len(pcmIn)
       /\ ReadUint32(wavOut, 24) = rate
       /\ ReadBytes(wavOut, 44, Len(pcmIn)) = pcmIn

\* C10 amended: the same for every sample rate 0 < r < 2^32 (at most four
\* base-256 digits).
C10_RoundTrip ==
    (Encoded /\ Len(pcmIn) % 2 = 0 /\ rate # <<>> /\ Len(rate) <= 4)
    => /\ Len(wavOut) = 44 + Len(pcmIn)
       /\ ReadUint32(wavOut, 24) = rate
       /\ ReadBytes(wavOut, 44, Len(pcmIn)) = pcmIn

C10_Witness ==
    /\ wavImpl = "buffer"
    /\ wavErr = "none"
    /\ pcmIn = <<1, 128, 255, 0>>
    /\ rate = <<128, 62>>
    /\ Len(wavOut) = 48
    /\ SubSeq(wavOut, 25, 28) = <<128, 62, 0, 0>>
    /\ SubSeq(wavOut, 45, 48) = <<1, 128, 255, 0>>

\* a small unsigned little-endian field read as a number (values < 2^31)
RECURSIVE LeValue(_)
LeValue(bytes) ==
    IF bytes = <<>> THEN 0 ELSE Head(bytes) + 256 * LeValue(Tail(bytes))
ReadSmall(buf, off, w) == LeValue(SubSeq(buf, off + 1, off + w))

\* C11: for every accepted input the 44-byte header is 'RIFF', total length
\* - 8 at offset 4, 'WAVE' at 8, 'fmt ' at 12, 16 at offset 16, format tag 1
\* at 20, channel count 1 at 22, bits per sample 16 at 34, 'data' at 36 and
\* at offset 40 the byte length of the input, which is total length - 44.
C11_HeaderLayout ==
    Encoded
    => /\ Len(wavOut) >= 44
       /\ SubSeq(wavOut, 1, 4) = <<82, 73, 70, 70>>
       /\ ReadSmall(wavOut, 4, 4) = Len(wavOut) - 8
       /\ SubSeq(wavOut, 9, 12) = <<87, 65, 86, 69>>
       /\ SubSeq(wavOut, 13, 16) = <<102, 109, 116, 32>>
       /\ ReadSmall(wavOut, 16, 4) = 16
       /\ ReadSmall(wavOut, 20, 2) = 1
       /\ ReadSmall(wavOut, 22, 2) = 1
       /\ ReadSmall(wavOut, 34, 2) = 16
       /\ SubSeq(wavOut, 37, 40) = <<100, 97, 116, 97>>
       /\ ReadSmall(wavOut, 40, 4) = Len(pcmIn)
       /\ ReadSmall(wavOut, 40, 4) = Len(wavOut) - 44

C11_Witness ==
    /\ wavImpl = "jsx"
    /\ pcmIn = <<0, 1, 0, 128>>
    /\ rate = <<128, 62>>
    /\ Len(wavOut) = 48
    /\ SubSeq(wavOut, 5, 8) = <<40, 0, 0, 0>>
    /\ SubSeq(wavOut, 23, 24) = <<1, 0>>
    /\ SubSeq(wavOut, 41, 44) = <<4, 0, 0, 0>>

\* C12: a conversion of a buffer of odd byte length fails and produces no
\* WAV output, whatever the sample rate.
C12_OddLengthFails ==
    (wavImpl # "none" /\ Len(pcmIn) % 2 = 1)
    => /\ wavErr # "none"
       /\ wavOut = <<>>

\* C17 as stated: for every positive sample rate r the field at offset 24
\* holds r, the field at offset 28 holds r * 2 and the field at 32 holds 2.
C17_RateFieldsAnyRate ==
    (Encoded /\ rate # <<>>)
    => /\ ReadUint32(wavOut, 24) = rate
       /\ ReadUint32(wavOut, 28) = DoubleFrom(rate, 0)
       /\ ReadSmall(wavOut, 32, 2) = 2

\* r < 2^31, on digits: at most four digits and the top one below 128
Below2Pow31(x) == Len(x) <= 4 /\ (Len(x) = 4 => x[4] < 128)

\* C17 amended: the same for every positive sample rate r < 2^31.
C17_RateFields ==
    (Encoded /\ rate # <<>> /\ Below2Pow31(rate))
    => /\ ReadUint32(wavOut, 24) = rate
       /\ ReadUint32(wavOut, 28) = DoubleFrom(rate, 0)
       /\ ReadSmall(wavOut, 32, 2) = 2

C17_Witness ==
    /\ wavImpl = "int16"
    /\ wavErr = "none"
    /\ rate = <<255, 255, 255, 127>>
    /\ SubSeq(wavOut, 25, 28) = <<255, 255, 255, 127>>
    /\ SubSeq(wavOut, 29, 32) = <<254, 255, 255, 255>>
    /\ SubSeq(wavOut, 33, 34) = <<2, 0>>

\* C20: with retries >= 1, whatever exponentialBackoffFetch returns to its
\* caller is a response with a success status: never a 429, never another
\* failure status, and it never completes without a response or an error.
C20_ReturnsOnlySuccess ==
    \A c \in Calls :
        (retries[c] >= 1 /\ pc[c] = "done")
        => /\ result[c].kind \in {"return", "throw"}
           /\ result[c].kind = "return"
                => /\ IsSuccess(result[c].status)
                   /\ result[c].status # 429
                   /\ IsStatus(c, Len(hist[c]), result[c].status)

C20_Witness ==
    \E c \in Calls :
        /\ retries[c] = 2
        /\ pc[c] = "done"
        /\ Len(hist[c]) = 2
        /\ IsStatus(c, 1, 429) /\ IsStatus(c, 2, 429)
        /\ result[c] = ThrownApi(429, 1)

\* ===================================================================
\* Properties of base64ToArrayBuffer
\* ===================================================================
\* the argument without its trailing padding characters
RECURSIVE Unpadded(_)
Unpadded(str) ==
    IF str # <<>> /\ str[Len(str)] = "="
    THEN Unpadded(SubSeq(str, 1, Len(str) - 1))
    ELSE str

\* valid base64: alphabet characters followed by the padding that fills the
\* last group of four, or by no padding at all
ValidBase64(str) ==
    LET u == Unpadded(str) IN
    /\ \A k \in 1..Len(u) : IsB64Char(u[k])
    /\ Len(u) % 4 # 1
    /\ Len(str) = Len(u) \/ (Len(str) % 4 = 0 /\ Len(str) - Len(u) <= 2)

\* byte j (0-based) of the bit stream made of the 6-bit values of u
StreamByte(u, j) ==
    LET q == (8 * j) \div 6
        o == (8 * j) % 6
        a == B64Value(u[q + 1])
        b == B64Value(u[q + 2])
    IN CASE o = 0 -> a * 4 + b \div 16
         [] o = 2 -> (a % 16) * 16 + b \div 4
         [] o = 4 -> (a % 4) * 64 + b

\* C15: for every valid base64 string the result is exactly the bytes the
\* string encodes: floor(len(unpadded) * 3 / 4) bytes, byte j being bits
\* 8j..8j+7 of the concatenated 6-bit values; "SGVsbG8=" gives "Hello".
C15_DecodesExactly ==
    (b64State # "input" /\ ValidBase64(b64In))
    => LET u == Unpadded(b64In) IN
       /\ b64State = "ok"
       /\ Len(b64Out) = (Len(u) * 3) \div 4
       /\ \A j \in 0..(Len(b64Out) - 1) : b64Out[j + 1] = StreamByte(u, j)
       /\ b64In = <<"S", "G", "V", "s", "b", "G", "8", "=">>
            => b64Out = <<72, 101, 108, 108, 111>>

C15_Witness ==
    /\ b64State = "ok"
    /\ b64In = <<"S", "G", "V", "s", "b", "G", "8", "=">>
    /\ b64Out = <<72, 101, 108, 108, 111>>

\* ===================================================================
\* Properties of generateSrt
\* ===================================================================
\* The expected output is stated without the operators of generateSrt:
\* chunks by the positions where a sentence starts, cue text by the first
\* and last code unit that is not blank, numbers by place value.

\* a code unit that ends a sentence: '!', '.', '?', LF or CR
EndsSentence(u) == u = 33 \/ u = 46 \/ u = 63 \/ u = 10 \/ u = 13

\* a code unit removed from the ends of a cue text: TAB..CR, space, U+00A0,
\* U+1680, U+2000..U+200A, U+2028, U+2029, U+202F, U+205F, U+3000, U+FEFF
Blank(u) ==
    \/ u \in 9..13
    \/ u \in 8192..8202
    \/ u \in {32, 160, 5760, 8232, 8233, 8239, 8287, 12288, 65279}

\* positions where a chunk starts: a code unit that does not end a
\* sentence, at the start of the text or right after one that does
ChunkStarts(text) ==
    {j \in 1..Len(text) :
        /\ ~EndsSentence(text[j])
        /\ j = 1 \/ EndsSentence(text[j - 1])}

\* the chunks of a text: each runs from one start up to the next start or
\* to the end of the text; a text without a start is one chunk
Chunks(text) ==
    LET starts == ChunkStarts(text)
        nth(k) == CHOOSE s \in starts :
                      Cardinality({j \in starts : j <= s}) = k
        last(k) == IF k = Cardinality(starts)
                   THEN Len(text) ELSE nth(k + 1) - 1
    IN IF starts = {}
       THEN <<text>>
       ELSE [k \in 1..Cardinality(starts) |->
                SubSeq(text, nth(k), last(k))]

\* a chunk without its leading and trailing blanks
Stripped(chunk) ==
    LET ink == {j \in 1..Len(chunk) : ~Blank(chunk[j])}
    IN IF ink = {}
       THEN <<>>
       ELSE SubSeq(chunk,
                   CHOOSE j \in ink : \A k \in ink : j <= k,
                   CHOOSE j \in ink : \A k \in ink : j >= k)

\* a number below 100 as two decimal digits
TwoDigits(n) == <<48 + (n \div 10), 48 + (n % 10)>>

\* a positive number below 1000 in decimal, without leading zeros
Decimal(k) ==
    IF k < 10 THEN <<48 + k>>
    ELSE IF k < 100 THEN TwoDigits(k)
    ELSE <<48 + (k \div 100)>> \o TwoDigits(k % 100)

\* a whole number of seconds as HH:MM:SS,000
Clock(seconds) ==
    TwoDigits(seconds \div 3600) \o <<58>>
    \o TwoDigits((seconds \div 60) % 60) \o <<58>>
    \o TwoDigits(seconds % 60) \o <<44, 48, 48, 48>>

\* cue k (1-based) of the expected output: k, from 3(k-1) s to 3k s, text
ExpectedCue(k, chunk) ==
    Decimal(k) \o <<10>>
    \o Clock(3 * (k - 1)) \o <<32, 45, 45, 62, 32>> \o Clock(3 * k) \o <<10>>
    \o Stripped(chunk) \o <<10, 10>>

RECURSIVE ExpectedCues(_, _)
ExpectedCues(chunks, n) ==
    IF n = 0 THEN <<>> ELSE ExpectedCues(chunks, n - 1) \o ExpectedCue(n, chunks[n])

\* C16: for a text split into n chunks the output is the n cues in chunk
\* order, cue k carrying index k, start 3000*(k-1) ms and end 3000*k ms as
\* HH:MM:SS,mmm, laid out as index, start --> end, text, blank line.
C16_SrtCues ==
    srtState = "done"
    => LET chunks == Chunks(srtText)
       IN srtOut = ExpectedCues(chunks, Len(chunks))

\* U+2003 "a." U+3000 "a" gives
\*   1 / 00:00:00,000 --> 00:00:03,000 / a.
\*   2 / 00:00:03,000 --> 00:00:06,000 / a
C16_Witness ==
    /\ srtState = "done"
    /\ srtText = <<8195, 97, 46, 12288, 97>>
    /\ srtOut = <<49, 10,
                  48, 48, 58, 48, 48, 58, 48, 48, 44, 48, 48, 48,
                  32, 45, 45, 62, 32,
                  48, 48, 58, 48, 48, 58, 48, 51, 44, 48, 48, 48, 10,
                  97, 46, 10, 10,
                  50, 10,
                  48, 48, 58, 48, 48, 58, 48, 51, 44, 48, 48, 48,
                  32, 45, 45, 62, 32,
                  48, 48, 58, 48, 48, 58, 48, 54, 44, 48, 48, 48, 10,
                  97, 10, 10>>

\* a run over a long text: cue 21 is "21", 00:01:00,000 --> 00:01:03,000
C16_WitnessMinute ==
    /\ srtState = "done"
    /\ LET chunks == Chunks(srtText)
       IN /\ Len(chunks) = 21
          /\ srtOut = ExpectedCues(chunks, 20)
                      \o <<50, 49, 10,
                           48, 48, 58, 48, 49, 58, 48, 48, 44, 48, 48, 48,
                           32, 45, 45, 62, 32,
                           48, 48, 58, 48, 49, 58, 48, 51, 44, 48, 48, 48, 10,
                           97, 46, 10, 10>>

\* a text of terminators only is one chunk with an empty cue text
C16_WitnessNoMatch ==
    /\ srtState = "done"
    /\ srtText = <<10, 10>>
    /\ srtOut = <<49, 10,
                  48, 48, 58, 48, 48, 58, 48, 48, 44, 48, 48, 48,
                  32, 45, 45, 62, 32,
                  48, 48, 58, 48, 48, 58, 48, 51, 44, 48, 48, 48, 10,
                  10, 10>>


\* ---------------------------------------------------------------- C19
\* C19: when handleGenerate is invoked with an input that is empty or only
\* white space, it sets the error message and returns: no request is sent,
\* no await is pending, and isLoading, audioUrl and srtUrl keep their values.
C19_EmptyInputGuard ==
    [][ ( /\ comp = "gen" /\ mounted /\ hpc = "idle"
          /\ uInput \in {"empty", "blank"}
          /\ uInput' = uInput /\ mounted' = mounted )
        => ( /\ uError' = "input"
             /\ hpc' = "idle"
             /\ audioSent' = audioSent
             /\ runs' = runs
             /\ loading' = loading
             /\ audioUrl' = audioUrl
             /\ srtUrl' = srtUrl
             /\ created' = created ) ]_vars

\* a click with a white-space input after a run that produced both URLs:
\* the error is set and the URLs of the earlier run are still in place
C19_Witness ==
    /\ comp = "gen" /\ hpc = "idle"
    /\ uInput = "blank"
    /\ uError = "input"
    /\ ~loading
    /\ audioUrl # 0 /\ srtUrl # 0

\* ---------------------------------------------------------------- C13
\* the body parsed, but it has no inlineData with data present and a
\* mimeType starting with "audio/"
LacksAudioField(b) ==
    /\ b.present /\ b.json
    /\ ~( /\ b.candidates /\ b.inline /\ b.hasData /\ b.hasMime
          /\ Len(b.mime) >= 6
          /\ \A k \in 1..6 : b.mime[k] = <<"a", "u", "d", "i", "o", "/">>[k] )

\* audio requests issued in the current run, by the handler or the executor
AudioRequests == audioSent + sent[1]

\* C13: when the audio request returned a success response whose body lacks
\* the inlineData audio field, the handler (of a component still in place)
\* ends the run with an error, creates no audio URL, and no further audio
\* request is sent.
C13_MissingAudioFieldIsTerminal ==
    [][ ( /\ mounted /\ hpc = "awaitJson"
          /\ audioStatus \in 200..299
          /\ LacksAudioField(body') )
        => ( /\ hpc' = "idle"
             /\ uError' # ""
             /\ audioUrl' = 0
             /\ created' = created
             /\ AudioRequests' = AudioRequests ) ]_vars

\* ---------------------------------------------------------------- C18
\* C18: every run that set its loading flag to true sets it back to false,
\* given that every awaited request, json() and timer settles: a run that
\* has started comes to its end, and in a component that is in place the
\* flag is false whenever no run is under way.  (After a teardown during a
\* run the handler still ends with setLoading(false), which React ignores.)
C18_LoadingReset ==
    /\ (hpc # "idle") ~> (hpc = "idle")
    /\ (mounted /\ loading) ~> (~mounted \/ ~loading)
    /\ [](mounted /\ hpc = "idle" => ~loading)

\* a run has ended in the catch block after the body was read, and the
\* flag is false again
C18_Witness ==
    /\ mounted /\ runs > 0 /\ hpc = "idle"
    /\ body.present
    /\ uError = "exception"
    /\ ~loading

\* ---------------------------------------------------------------- C14
MaxUrls == 2 * MaxRuns

\* u was created and the component does not refer to it any more
Unreferenced(u) ==
    /\ u \in created
    /\ \/ ~mounted
       \/ (u # audioUrl /\ u # srtUrl)

\* C14: every object URL a component created is revoked at some time after it
\* stopped being referenced (replaced, cleared by the next run, or the
\* component was torn down).
C14_EveryUrlRevoked ==
    \A u \in 1..MaxUrls : Unreferenced(u) ~> (u \in revoked)

\* ---------------------------------------------------------------- C21
\* C21: an invocation of exponentialBackoffFetch with retries = 0 is over at
\* once: it has sent no request, started no wait, thrown no error, and its
\* promise resolved with undefined.
C21_ZeroRetries ==
    \A c \in Calls :
        (pc[c] # "idle" /\ retries[c] = 0)
        => /\ pc[c] = "done"
           /\ sent[c] = 0
           /\ hist[c] = <<>>
           /\ waits[c] = <<>>
           /\ fired[c] = 0
           /\ result[c].kind = "undefined"
           /\ result[c].cause = "none"

\* an invocation with retries = 0 has completed, next to one with retries > 0
\* that has sent requests
C21_Witness ==
    /\ pc[2] = "done" /\ retries[2] = 0
    /\ result[2].kind = "undefined"
    /\ retries[1] > 0 /\ sent[1] > 0

\* ---------------------------------------------------------------- C22
\* C22: for sample bytes of even length and any sample rate, the output of
\* whichever pcmToWav implementation was called equals, byte for byte, what
\* each of the three implementations produces from the same bytes and rate
\* (the Int16Array variants seeing the bytes through a little-endian view).
C22_SameOutput ==
    (wavImpl # "none" /\ Len(pcmIn) % 2 = 0)
    => /\ wavErr = "none"
       /\ wavOut = pcmToWav(pcmIn, rate)
       /\ wavOut = pcmToWav_ArrayBuffer(pcmIn, rate)
       /\ wavOut = pcmToWav_Int16Array(Int16Array(pcmIn), rate)

\* the ArrayBuffer variant has converted two samples, one of them negative,
\* with different low and high bytes
C22_Witness ==
    /\ wavImpl = "buffer"
    /\ pcmIn = <<1, 128, 255, 0>>
    /\ rate = <<192, 93>>
    /\ Len(wavOut) = 48
    /\ SubSeq(wavOut, 45, 48) = <<1, 128, 255, 0>>

\* the same input converted by the Int16Array variant
C22_WitnessInt16 ==
    /\ wavImpl = "int16"
    /\ pcmIn = <<1, 128, 255, 0>>
    /\ Len(wavOut) = 48

\* the same input converted by the byte-wise variant
C22_WitnessJsx ==
    /\ wavImpl = "jsx"
    /\ pcmIn = <<1, 128, 255, 0>>
    /\ Len(wavOut) = 48

====
